---- MODULE Spec2Model ----
(***************************************************************************)
(* Model of the matching engine, src/src/services/matching-engine.ts.      *)
(*                                                                         *)
(* The engine is one Node.js object.  Its methods are async functions: a   *)
(* method runs without interruption up to an `await` on I/O (the store,    *)
(* the secondary channel, a user lookup), and other callbacks (ticks,      *)
(* timers, response handlers) run in between.  A step of the model is one  *)
(* such uninterrupted segment.  A store query is answered within the       *)
(* segment that issues it, and a store write takes effect within the       *)
(* segment that resumes from it.  A call in flight is a record in the bag  *)
(* `tasks`; its pc names the await it is suspended on.                     *)
(*                                                                         *)
(* An await that waits on nothing shared (the heartbeat and flag writes    *)
(* of processMatching, an await on an already settled promise) is merged   *)
(* into the segment before it, and a call whose remaining code only        *)
(* returns is over.  Wall-clock durations are abstracted: an armed timer   *)
(* may fire at any later step, the snapshot cache may go out of date at    *)
(* any step.  Message payloads that no decision reads (prices quoted in a  *)
(* notification or a broadcast) are left out.                              *)
(***************************************************************************)
EXTENDS Integers, Sequences, FiniteSets, Bags, TLC

\* ---------------------------------------------------------------- bounds
MaxTasks == 2       \* calls of the engine suspended at the same time
MaxQty == 2         \* largest order quantity (lots)
MaxOrphans == 1     \* armed confirmation timers no pending confirmation refers to
MaxStale == 1       \* timers and notifyNegotiation calls of deleted negotiation states
MaxLots == 10       \* largest quantity of a trade whose commission is computed
MaxPriceStep == 30  \* largest trade price whose commission is computed, in half units
MaxStartups == 2    \* start-up timers pending at the same time
MaxLeaked == 1      \* running tick drivers this.matchingInterval no longer refers to

\* ------------------------------------------------------ the order book
\* The orders of the store: identity, side, asset, owner and creation time
\* never change; price, amount, remaining and status do.
Bids == {"b1", "b2", "b3"}
Offers == {"o1", "o2", "o3"}
Orders == Bids \cup Offers
Assets == {"A", "B"}
Users == {"ub1", "uo1"}
Prices == {950, 1000}       \* in cents

ActionOf(o) == IF o \in Bids THEN "BID" ELSE "OFFER"
AssetOf(o) == IF o \in {"b2", "o2"} THEN "B" ELSE "A"
UserOf(o) == IF o \in Bids THEN "ub1" ELSE "uo1"
CreatedAt(o) ==
    CASE o = "b1" -> 1 [] o = "o1" -> 2 [] o = "b2" -> 3 [] o = "o2" -> 4 [] o = "b3" -> 5
      [] OTHER -> 6

None == 0           \* an optional number that is absent (undefined)
NoOrd == [id |-> "-", price |-> 0, remaining |-> 0]
NoKey == <<"-", "-", "-">>
EmptySnap == [o \in {} |-> [price |-> 0, remaining |-> 0]]
Keys == {k \in {<<AssetOf(b), b, o>> : b \in Bids, o \in Offers} : AssetOf(k[3]) = k[1]}

VARIABLES
    store,          \* orders table: order id -> row
    cache,          \* lastOrdersCache: snapshot (order id -> price, remaining)
    cacheFresh,     \* lastCacheTime is set and younger than cacheValidityMs
    pending,        \* pendingConfirmations: confirmationKey -> confirmation
    declined,       \* declinedPartialFills
    qcOrphans,      \* armed confirmation timers whose confirmation object left the map, per key
    neg,            \* negotiationState: asset -> state object
    staleNotifies,  \* suspended notifyNegotiation calls whose state object left the map, per asset
    staleTimers,    \* armed negotiation timers whose state object left the map, per asset
    tasks,          \* suspended calls of the engine
    isRunning,      \* this.isRunning
    startups,       \* pending start-up setTimeout callbacks
    interval,       \* this.matchingInterval holds a running setInterval
    leaked,         \* running setInterval drivers this.matchingInterval no longer refers to
    ev              \* what the last step did (observation only)

vars == <<store, cache, cacheFresh, pending, declined, qcOrphans, neg,
          staleNotifies, staleTimers, tasks, isRunning, startups, interval, leaked, ev>>

engineVars == <<cache, cacheFresh, pending, declined, qcOrphans, neg, staleNotifies, staleTimers>>
lifeVars == <<isRunning, startups, interval, leaked>>

\* ---------------------------------------------------------------- helpers
Min(a, b) == IF a < b THEN a ELSE b
Max(a, b) == IF a > b THEN a ELSE b
Drop(f, k) == [x \in DOMAIN f \ {k} |-> f[x]]
Put(f, k, v) == [x \in DOMAIN f \cup {k} |-> IF x = k THEN v ELSE f[x]]

\* The observation of a step: the message it sent or the reply it handled, and the
\* user it notified or served.  Quiet: the step sent nothing.
Ev(op, u) == [op |-> op, u |-> u]
Quiet == Ev("-", "-")

Idle == [kind |-> "idle", pc |-> "-", asset |-> "-", todo |-> <<>>, snap |-> EmptySnap,
         bid |-> NoOrd, offer |-> NoOrd, key |-> NoKey, via |-> "-",
         accepted |-> FALSE, newVal |-> None, upd |-> "-"]

\* The calls in flight are a bag: two calls in the same position are two records.
InFlight == BagToSet(tasks)
\* A new call may start; until it suspends it is Idle, a record not in the bag.
CanStart == BagCardinality(tasks) < MaxTasks
\* Call t has moved on in this step: the bag holds one record t less.
Leaves(t) == CopiesIn(t, tasks') < CopiesIn(t, tasks)
\* Call t goes on as tk; a call that is Idle is over and leaves the bag.
Swap(t, tk) ==
    ((IF t = Idle THEN tasks ELSE tasks (-) SetToBag({t}))
       (+) (IF tk = Idle THEN EmptyBag ELSE SetToBag({tk})))

\* What a findMany / findUnique returns of a row.
SnapOf(st, S) == [o \in S |-> [price |-> st[o].price, remaining |-> st[o].remaining]]
Row(o) == [id |-> o, price |-> store[o].price, remaining |-> store[o].remaining]
Ord(snap, o) == [id |-> o, price |-> snap[o].price, remaining |-> snap[o].remaining]

\* prisma.order.findMany({where: {status: 'ACTIVE', remaining: {gt: 0}}})
ActiveIds(st) == {o \in Orders : st[o].status = "ACTIVE" /\ st[o].remaining > 0}
FindActive(st) == SnapOf(st, ActiveIds(st))
FindActiveForAsset(st, a) == SnapOf(st, {o \in ActiveIds(st) : AssetOf(o) = a})

\* orders.filter(o => o.asset === asset)
ForAsset(snap, a) == [o \in {x \in DOMAIN snap : AssetOf(x) = a} |-> snap[o]]

TypeOK ==
    /\ DOMAIN store = Orders
    /\ \A o \in Orders : store[o].status \in {"ACTIVE", "MATCHED", "CANCELLED", "EXPIRED"}
    /\ cacheFresh \in BOOLEAN
    /\ DOMAIN pending \subseteq Keys
    /\ declined \subseteq Keys
    /\ DOMAIN neg \subseteq Assets
    /\ IsABag(tasks)
    /\ BagCardinality(tasks) <= MaxTasks

\* A row of an order that was cancelled before the engine started.
CancelledRow == [price |-> 1000, amount |-> 1, remaining |-> 1,
                 status |-> "CANCELLED", matched |-> FALSE]

\* The engine after construction, over a store of unfilled orders, active or cancelled.
InitEngine ==
    /\ store \in [Orders -> {[price |-> p, amount |-> q, remaining |-> q,
                              status |-> "ACTIVE", matched |-> FALSE] :
                             p \in Prices, q \in 1..MaxQty} \cup {CancelledRow}]
    /\ cache = EmptySnap
    /\ cacheFresh = FALSE
    /\ pending = [k \in {} |-> 0]
    /\ declined = {}
    /\ qcOrphans = [k \in Keys |-> 0]
    /\ neg = [a \in {} |-> 0]
    /\ staleNotifies = [a \in Assets |-> 0]
    /\ staleTimers = [a \in Assets |-> 0]
    /\ tasks = EmptyBag
    /\ ev = Ev("init", "-")

\* ------------------------------------------------- per-asset decision
BidsOf(ords) == {o \in DOMAIN ords : ActionOf(o) = "BID"}
OffersOf(ords) == {o \in DOMAIN ords : ActionOf(o) = "OFFER"}

\* bids.sort((a, b) => b.price - a.price || a.createdAt - b.createdAt)[0]
BestBid_M(ords) ==
    CHOOSE b \in BidsOf(ords) : \A c \in BidsOf(ords) \ {b} : CreatedAt(b) < CreatedAt(c)
BestBid(ords) ==
    CHOOSE b \in BidsOf(ords) : \A c \in BidsOf(ords) \ {b} :
        \/ ords[b].price > ords[c].price
        \/ ords[b].price = ords[c].price /\ CreatedAt(b) < CreatedAt(c)

\* offers.sort((a, b) => a.price - b.price || a.createdAt - b.createdAt)[0]
BestOffer(ords) ==
    CHOOSE o \in OffersOf(ords) : \A c \in OffersOf(ords) \ {o} :
        \/ ords[o].price < ords[c].price
        \/ ords[o].price = ords[c].price /\ CreatedAt(o) < CreatedAt(c)

ConfirmationKey(asset, bid, offer) == <<asset, bid.id, offer.id>>

\* The confirmation processAssetMatching stores for a price match with different
\* quantities; timer: the timeout handle it holds is armed.
NewConfirmation(bid, offer) ==
    [bidOrder |-> bid, offerOrder |-> offer,
     smallerParty |-> IF bid.remaining < offer.remaining THEN "BUYER" ELSE "SELLER",
     smallerQuantity |-> Min(bid.remaining, offer.remaining),
     largerQuantity |-> Max(bid.remaining, offer.remaining),
     additionalQuantity |-> Max(bid.remaining, offer.remaining) - Min(bid.remaining, offer.remaining),
     state |-> "AWAITING_SMALLER",
     timer |-> TRUE]

SmallerOrder(c) == IF c.smallerParty = "BUYER" THEN c.bidOrder ELSE c.offerOrder
LargerOrder(c) == IF c.smallerParty = "BUYER" THEN c.offerOrder ELSE c.bidOrder

\* A state object of the negotiation.  timer: state.timeout is armed; notifying: a
\* notifyNegotiation call that read this object is suspended on the user lookup.
NewNegotiation_M(bid, offer) ==
    [bestBid |-> bid.id, bestOffer |-> offer.id, turn |-> "BID", timer |-> FALSE,
     notifying |-> FALSE]
NewNegotiation(bid, offer) ==
    [bestBid |-> bid.id, bestOffer |-> offer.id, turn |-> "OFFER", timer |-> FALSE,
     notifying |-> FALSE]

\* notifyNegotiation(asset) up to its await.  The turn and the two orders are read
\* before the await, so the user the call will notify is settled here.
NotifyCall(st) == [st EXCEPT !.notifying = TRUE]
Notified(st) == UserOf(IF st.turn = "OFFER" THEN st.bestOffer ELSE st.bestBid)

\* clearTimeout(state.timeout)
ClearNegTimer(st) == [st EXCEPT !.timer = FALSE]

\* invalidateCache()
InvalidateCache ==
    /\ cache' = EmptySnap
    /\ cacheFresh' = FALSE

\* A call returns to the engine's caller.  processAsset invalidates the cache once
\* processAssetMatching has returned; the tick goes on to its next asset.
Finish(t, tk, cv, cf) ==
    IF tk.kind = "tick" /\ tk.todo # <<>>
    THEN /\ tasks' = Swap(t, [tk EXCEPT !.pc = "next", !.bid = NoOrd,
                                                     !.offer = NoOrd, !.via = "-"])
         /\ cache' = cv
         /\ cacheFresh' = cf
    ELSE /\ tasks' = Swap(t, Idle)
         /\ IF tk.kind = "pa" THEN InvalidateCache ELSE cache' = cv /\ cacheFresh' = cf

\* A call awaits a message on the secondary channel and then returns.  Where the
\* return does nothing more, the call is over at once.
AwaitThenFinish(t, tk, cv, cf) ==
    /\ tasks' = Swap(t,
                    IF tk.kind = "pa" \/ (tk.kind = "tick" /\ tk.todo # <<>>)
                    THEN [tk EXCEPT !.pc = "wa"] ELSE Idle)
    /\ cache' = cv
    /\ cacheFresh' = cf

\* processAssetMatching, lines 357-387: start or update the negotiation of the asset;
\* ng is the negotiation map as the caller leaves it.
NegotiationPart(t, tk, asset, bid, offer, ng, cv, cf) ==
    /\ Finish(t, tk, cv, cf)
    /\ IF asset \notin DOMAIN ng
       THEN /\ neg' = Put(ng, asset, NotifyCall(NewNegotiation(bid, offer)))
            /\ ev' = Ev("neg_created", Notified(NewNegotiation(bid, offer)))
       ELSE LET st == ng[asset]
                bidChanged == bid.id # st.bestBid
                offerChanged == offer.id # st.bestOffer
                st1 == IF bidChanged
                       THEN [st EXCEPT !.bestBid = bid.id, !.turn = "OFFER"] ELSE st
                st2 == IF offerChanged
                       THEN [st1 EXCEPT !.bestOffer = offer.id, !.turn = "BID"] ELSE st1
            IN IF bidChanged \/ offerChanged
               THEN /\ neg' = Put(ng, asset, NotifyCall(ClearNegTimer(st2)))
                    /\ ev' = Ev("neg_updated", Notified(st2))
               ELSE /\ neg' = ng
                    /\ ev' = Quiet

\* this.pendingConfirmations.has(confirmationKey)
IsPending_M(key) == FALSE
IsPending(key) == key \in DOMAIN pending

\* this.declinedPartialFills.has(confirmationKey)
IsDeclined_M(key) == FALSE
IsDeclined(key) == key \in declined

\* processAssetMatching returns without touching the engine's maps.
PamReturn(t, tk, op, ng, cv, cf) ==
    /\ Finish(t, tk, cv, cf)
    /\ ev' = Ev(op, "-")
    /\ neg' = ng
    /\ UNCHANGED pending

\* processAssetMatching suspends on an await.
PamAwait(t, tk, op, ng, cv, cf) ==
    /\ tasks' = Swap(t, tk)
    /\ ev' = Ev(op, "-")
    /\ neg' = ng
    /\ cache' = cv
    /\ cacheFresh' = cf
    /\ UNCHANGED pending

\* processAssetMatching(asset, orders) up to its first await, run by call tk in slot
\* t; ng, cv, cf: the negotiation map and the cache as the caller leaves
\* them.  It suspends at "tx" (executeMatch waits for the transaction), "alerts"
\* (the competitive bidding alerts are awaited) or "wa" (the confirmation request
\* is sent on the secondary channel), or it returns.
ProcessAssetMatching(t, tk, asset, ords, ng, cv, cf) ==
    IF BidsOf(ords) = {} \/ OffersOf(ords) = {}
    THEN PamReturn(t, tk, "-", ng, cv, cf)
    ELSE LET bid == Ord(ords, BestBid(ords))
             offer == Ord(ords, BestOffer(ords))
             key == ConfirmationKey(asset, bid, offer)
             conf == NewConfirmation(bid, offer)
         IN CASE bid.price = offer.price /\ bid.remaining # offer.remaining ->
                   IF IsPending(key)
                   THEN PamReturn(t, tk, "pam_already_pending", ng, cv, cf)
                   ELSE IF IsDeclined(key)
                   THEN PamReturn(t, tk, "pam_declined_skip", ng, cv, cf)
                   ELSE /\ pending' = Put(pending, key, conf)
                        /\ AwaitThenFinish(t, tk, cv, cf)
                        /\ ev' = Ev("confirmation_request", UserOf(SmallerOrder(conf).id))
                        /\ neg' = ng
              [] bid.price = offer.price /\ bid.remaining = offer.remaining ->
                   PamAwait(t, [tk EXCEPT !.pc = "tx", !.asset = asset, !.bid = bid,
                                          !.offer = offer, !.via = "pam"],
                            "pam_match", ng, cv, cf)
              [] bid.price < offer.price ->
                   PamAwait(t, [tk EXCEPT !.pc = "alerts", !.asset = asset,
                                          !.bid = [NoOrd EXCEPT !.id = bid.id],
                                          !.offer = [NoOrd EXCEPT !.id = offer.id]],
                            "pam_alerts", ng, cv, cf)
              [] OTHER ->
                   /\ NegotiationPart(t, tk, asset, bid, offer, ng, cv, cf)
                   /\ UNCHANGED pending

\* ------------------------------------------------------- matching loop
AssetRank(a) == CASE a = "A" -> 1 [] OTHER -> 2
CountOf(snap, a) == Cardinality({o \in DOMAIN snap : AssetOf(o) = a})
\* a comes before b in Object.entries(ordersByAsset).sort((a, b) => b[1].length - a[1].length):
\* more orders first; the sort is stable and the entries are in the snapshot's asset order.
AssetBefore(snap, a, b) ==
    \/ CountOf(snap, a) > CountOf(snap, b)
    \/ CountOf(snap, a) = CountOf(snap, b) /\ AssetRank(a) < AssetRank(b)

RECURSIVE SortAssets(_, _)
SortAssets(S, snap) ==
    IF S = {} THEN <<>>
    ELSE LET a == CHOOSE x \in S : \A y \in S \ {x} : AssetBefore(snap, x, y)
         IN <<a>> \o SortAssets(S \ {a}, snap)

AssetEntries(snap) == SortAssets({AssetOf(o) : o \in DOMAIN snap}, snap)

\* processMatching once it has the orders: processMatchingInMemory(orders), up to the
\* first await of the first asset's processAssetMatching.
ProcessMatchingInMemory(t, orders, cv, cf) ==
    IF DOMAIN orders = {}
    THEN PamReturn(t, Idle, "-", neg, cv, cf)
    ELSE LET seq == AssetEntries(orders)
             tk == [Idle EXCEPT !.kind = "tick", !.todo = Tail(seq),
                                !.snap = IF Tail(seq) = <<>> THEN EmptySnap ELSE orders]
         IN ProcessAssetMatching(t, tk, Head(seq), ForAsset(orders, Head(seq)), neg,
                                 cv, cf)

\* A setInterval driver fires: processMatching() up to the store query of
\* getActiveOrders, or, with a valid cache, on to the decision of the first asset.
TickStart ==
    /\ interval \/ leaked > 0
    /\ CanStart
    /\ IF cacheFresh
       THEN ProcessMatchingInMemory(Idle, cache, cache, cacheFresh)
       ELSE /\ tasks' = Swap(Idle, [Idle EXCEPT !.kind = "tick", !.pc = "fetched",
                                                          !.snap = FindActive(store)])
            /\ ev' = Ev("fetch", "-")
            /\ UNCHANGED <<cache, cacheFresh, pending, neg>>
    /\ UNCHANGED <<store, declined, qcOrphans, staleNotifies, staleTimers, lifeVars>>

\* The tick goes on to the next asset of its snapshot.
TickNext(t) ==
    LET tk == t IN
    /\ tk.pc \in {"next", "wa"}
    /\ tk.kind = "tick"
    /\ ProcessAssetMatching(t, [tk EXCEPT !.pc = "-", !.todo = Tail(tk.todo),
                                          !.snap = IF Tail(tk.todo) = <<>> THEN EmptySnap
                                                   ELSE tk.snap],
                            Head(tk.todo), ForAsset(tk.snap, Head(tk.todo)), neg,
                            cache, cacheFresh)
    /\ UNCHANGED <<store, declined, qcOrphans, staleNotifies, staleTimers, lifeVars>>

\* The assets a tick has still to process after the one it turns to now.
RestOfTick(t) == IF t.pc = "fetched" THEN Tail(AssetEntries(t.snap)) ELSE Tail(t.todo)

\* The tick turns to an asset whose decision stores a confirmation, and the realtime
\* notifyUser call of line 315 throws: processAssetMatching rejects, the loop of
\* processMatchingInMemory is left, and processMatching logs the error and returns.
TickDecisionThrows(t) ==
    LET first == t.pc = "fetched"
        asset == IF first THEN Head(AssetEntries(t.snap)) ELSE Head(t.todo)
        ords == ForAsset(t.snap, asset)
        bid == Ord(ords, BestBid(ords))
        offer == Ord(ords, BestOffer(ords))
        key == ConfirmationKey(asset, bid, offer)
    IN /\ t.kind = "tick"
       /\ t.pc \in {"fetched", "next", "wa"}
       /\ IF first THEN DOMAIN t.snap # {} ELSE t.todo # <<>>
       /\ BidsOf(ords) # {} /\ OffersOf(ords) # {}
       /\ bid.price = offer.price /\ bid.remaining # offer.remaining
       /\ ~IsPending(key) /\ ~IsDeclined(key)
       /\ pending' = Put(pending, key, NewConfirmation(bid, offer))
       /\ tasks' = Swap(t, Idle)
       /\ IF first THEN cache' = t.snap /\ cacheFresh' = TRUE
                   ELSE UNCHANGED <<cache, cacheFresh>>
       /\ ev' = Ev("decision_error", "-")
       /\ UNCHANGED <<store, declined, qcOrphans, neg, staleNotifies, staleTimers, lifeVars>>

\* processAsset(asset), up to its store query.
ProcessAsset(a) ==
    /\ CanStart
    /\ tasks' = Swap(Idle, [Idle EXCEPT !.kind = "pa", !.pc = "fetched", !.asset = a,
                                                  !.snap = FindActiveForAsset(store, a)])
    /\ ev' = Ev("fetch", "-")
    /\ UNCHANGED <<store, engineVars, lifeVars>>

\* processAsset resumes after the confirmation request went out: it invalidates the cache.
ProcessAssetEnd(t) ==
    /\ t.pc = "wa"
    /\ t.kind = "pa"
    /\ tasks' = Swap(t, Idle)
    /\ InvalidateCache
    /\ ev' = Quiet
    /\ UNCHANGED <<store, pending, declined, qcOrphans, neg, staleNotifies, staleTimers,
                   lifeVars>>

\* The call resumes with the rows: getActiveOrders installs them as the cache (tick,
\* negotiation response), then the caller goes on to the per-asset decision.
Fetched(t) ==
    LET tk == t IN
    /\ tk.pc = "fetched"
    /\ CASE tk.kind = "tick" ->
              ProcessMatchingInMemory(t, tk.snap, tk.snap, TRUE)
         [] tk.kind = "neg" ->
              ProcessAssetMatching(t, [tk EXCEPT !.pc = "-", !.snap = EmptySnap], tk.asset,
                                   ForAsset(tk.snap, tk.asset), neg, tk.snap, TRUE)
         [] OTHER ->
              IF Cardinality(DOMAIN tk.snap) < 2
              THEN /\ tasks' = Swap(t, Idle)
                   /\ ev' = Quiet
                   /\ UNCHANGED <<cache, cacheFresh, pending, neg>>
              ELSE ProcessAssetMatching(t, [tk EXCEPT !.pc = "-", !.snap = EmptySnap],
                                        tk.asset, tk.snap, neg, cache, cacheFresh)
    /\ UNCHANGED <<store, declined, qcOrphans, staleNotifies, staleTimers, lifeVars>>

\* processAssetMatching resumes after sendCompetitiveBiddingAlerts.
AfterAlerts(t) ==
    /\ t.pc = "alerts"
    /\ NegotiationPart(t, t, t.asset, t.bid, t.offer, neg,
                       cache, cacheFresh)
    /\ UNCHANGED <<store, pending, declined, qcOrphans, staleNotifies, staleTimers, lifeVars>>

\* ------------------------------------------------------ trade committer
\* executeMatch(bid, offer): the amounts come from the two order objects it was given.
TradeAmount(bid, offer) == Min(bid.remaining, offer.remaining)
TradePrice(bid, offer) == offer.price
MatchType(bid, offer) ==
    IF bid.remaining = offer.remaining THEN "FULL_MATCH"
    ELSE IF bid.remaining < offer.remaining THEN "PARTIAL_FILL_BUYER"
    ELSE "PARTIAL_FILL_SELLER"

\* The row an order update of the transaction writes.
AfterTrade(row, remaining) ==
    [row EXCEPT !.remaining = remaining,
                !.matched = (remaining = 0),
                !.status = IF remaining = 0 THEN "MATCHED" ELSE "ACTIVE"]

\* The transaction of executeMatch commits, and the call resumes: the cache is
\* invalidated and the fan-out (order book projection, trade event) is awaited.
\* Where the caller does nothing after executeMatch, the call is over.
Commit(t) ==
    LET tk == t
        amount == TradeAmount(tk.bid, tk.offer)
    IN /\ tk.pc = "tx"
       /\ store' = [store EXCEPT
                      ![tk.bid.id] = AfterTrade(@, tk.bid.remaining - amount),
                      ![tk.offer.id] = AfterTrade(@, tk.offer.remaining - amount)]
       /\ InvalidateCache
       /\ tasks' = Swap(t,
                       IF tk.kind = "pa" \/ (tk.kind = "tick" /\ tk.todo # <<>>)
                       THEN [Idle EXCEPT !.kind = tk.kind, !.pc = "fanout",
                                         !.todo = tk.todo, !.snap = tk.snap]
                       ELSE Idle)
       /\ ev' = [op |-> "trade", u |-> "-", bid |-> tk.bid.id, offer |-> tk.offer.id,
                 amount |-> amount, price |-> TradePrice(tk.bid, tk.offer),
                 matchType |-> MatchType(tk.bid, tk.offer),
                 via |-> tk.via, accepted |-> tk.accepted]
       /\ UNCHANGED <<pending, declined, qcOrphans, neg, staleNotifies, staleTimers, lifeVars>>

\* executeMatch resumes after the fan-out, sends the two trade notifications and
\* returns to its caller.
MatchReturn(t) ==
    /\ t.pc = "fanout"
    /\ Finish(t, t, cache, cacheFresh)
    /\ ev' = Ev("trade_notifications", "-")
    /\ UNCHANGED <<store, pending, declined, qcOrphans, neg, staleNotifies, staleTimers,
                   lifeVars>>

\* The fan-out rejects (the order book projection or the publish of the trade event
\* fails): the await throws into the catch of executeMatch, which logs the error and
\* returns to its caller; the statements after the await are not run.
FanoutFails(t) ==
    /\ t.pc = "fanout"
    /\ Finish(t, t, cache, cacheFresh)
    /\ ev' = Ev("fanout_failed", "-")
    /\ UNCHANGED <<store, pending, declined, qcOrphans, neg, staleNotifies, staleTimers,
                   lifeVars>>

\* What an aborted transaction is seen to do: which caller's match it was.
Aborted(t) == [op |-> "commit_failed", u |-> "-", kind |-> t.kind, via |-> t.via]

\* The transaction aborts: executeMatch logs the error and returns to its caller.
CommitFail_M(t) ==
    /\ t.pc = "tx"
    /\ tasks' = Swap(t, Idle)
    /\ InvalidateCache
    /\ ev' = Aborted(t)
    /\ UNCHANGED <<store, pending, declined, qcOrphans, neg, staleNotifies, staleTimers,
                   lifeVars>>
CommitFail(t) ==
    /\ t.pc = "tx"
    /\ Finish(t, t, cache, cacheFresh)
    /\ ev' = Aborted(t)
    /\ UNCHANGED <<store, pending, declined, qcOrphans, neg, staleNotifies, staleTimers,
                   lifeVars>>

\* ------------------------------------------------ negotiation controller
Toggle(turn) == IF turn = "BID" THEN "OFFER" ELSE "BID"

\* The order handleNegotiationResponse updates for this user, "-" when none.
OrderToUpdate(st, userId) ==
    IF st.turn = "OFFER" /\ UserOf(st.bestOffer) = userId THEN st.bestOffer
    ELSE IF st.turn = "BID" /\ UserOf(st.bestBid) = userId THEN st.bestBid
    ELSE "-"

\* getActiveOrders() and processAssetMatching of handleNegotiationResponse: with a
\* valid cache the decision runs on the cached orders, else the store (st) is queried.
RefetchAndMatch(t, tk, ng, st) ==
    IF cacheFresh
    THEN ProcessAssetMatching(t, tk, tk.asset, ForAsset(cache, tk.asset), ng,
                              cache, cacheFresh)
    ELSE /\ tasks' = Swap(t, [tk EXCEPT !.pc = "fetched", !.snap = FindActive(st)])
         /\ ev' = Ev("fetch", "-")
         /\ neg' = ng
         /\ UNCHANGED <<cache, cacheFresh, pending>>

\* negotiationState.delete(asset).  A notifyNegotiation call that read the deleted
\* object stays suspended, and a timer the object holds (armed) stays armed.
DeleteNegotiation(asset, armed, notifying) ==
    /\ neg' = Drop(neg, asset)
    /\ staleNotifies[asset] + staleTimers[asset]
         + (IF armed THEN 1 ELSE 0) + (IF notifying THEN 1 ELSE 0) <= MaxStale
    /\ staleNotifies' = [staleNotifies EXCEPT ![asset] = @ + (IF notifying THEN 1 ELSE 0)]
    /\ staleTimers' = [staleTimers EXCEPT ![asset] = @ + (IF armed THEN 1 ELSE 0)]

\* handleNegotiationResponse(asset, userId, improved, newPrice), up to its first await.
HandleNegotiationResponse(asset, userId, improved, newPrice) ==
    /\ IF asset \notin DOMAIN neg
       THEN /\ ev' = Ev("neg_no_state", "-")
            /\ UNCHANGED <<tasks, cache, cacheFresh, pending, neg, staleNotifies, staleTimers>>
       ELSE LET st == ClearNegTimer(neg[asset])
                cleared == Put(neg, asset, st)
                tk == [Idle EXCEPT !.kind = "neg", !.asset = asset]
            IN CASE improved /\ newPrice # None ->
                      /\ CanStart
                      /\ IF OrderToUpdate(st, userId) # "-"
                         THEN /\ tasks' = Swap(Idle,
                                     [tk EXCEPT !.pc = "priceupd", !.newVal = newPrice,
                                                !.upd = OrderToUpdate(st, userId)])
                              /\ ev' = Ev("neg_improve", userId)
                              /\ neg' = cleared
                              /\ UNCHANGED <<cache, cacheFresh, pending>>
                         ELSE RefetchAndMatch(Idle, tk, cleared, store)
                      /\ UNCHANGED <<staleNotifies, staleTimers>>
                 [] improved /\ newPrice = None ->
                      LET st2 == [st EXCEPT !.turn = Toggle(st.turn)]
                      IN /\ neg' = Put(neg, asset, NotifyCall(st2))
                         /\ ev' = [op |-> "neg_toggle", u |-> userId, to |-> Notified(st2)]
                         /\ UNCHANGED <<tasks, cache, cacheFresh, pending, staleNotifies,
                                        staleTimers>>
                 [] OTHER ->
                      /\ DeleteNegotiation(asset, FALSE, st.notifying)
                      /\ ev' = Ev("broadcast_pass", userId)
                      /\ UNCHANGED <<tasks, cache, cacheFresh, pending>>
    /\ UNCHANGED <<store, declined, qcOrphans, lifeVars>>

\* The store has updated the order's price; the handler resumes with getActiveOrders.
PriceUpdated(t) ==
    LET tk == t IN
    /\ tk.pc = "priceupd"
    /\ store' = [store EXCEPT ![tk.upd].price = tk.newVal]
    /\ RefetchAndMatch(t, [tk EXCEPT !.pc = "-", !.newVal = None, !.upd = "-"], neg,
                       [store EXCEPT ![tk.upd].price = tk.newVal])
    /\ UNCHANGED <<declined, qcOrphans, staleNotifies, staleTimers, lifeVars>>

\* notifyNegotiation resumes after the user lookup: it sends the your_turn message
\* and re-arms the timer of the state object it read, here the one in the map.
NotifyResume(a) ==
    /\ a \in DOMAIN neg
    /\ neg[a].notifying
    /\ neg' = [neg EXCEPT ![a].notifying = FALSE, ![a].timer = TRUE]
    /\ ev' = Ev("your_turn", "-")
    /\ UNCHANGED <<store, cache, cacheFresh, pending, declined, qcOrphans, staleNotifies,
                   staleTimers, tasks, lifeVars>>

\* The same for a call whose state object has left the map: its timer is armed.
StaleNotifyResume(a) ==
    /\ staleNotifies[a] > 0
    /\ staleNotifies' = [staleNotifies EXCEPT ![a] = @ - 1]
    /\ staleTimers' = [staleTimers EXCEPT ![a] = @ + 1]
    /\ ev' = Ev("your_turn_stale", "-")
    /\ UNCHANGED <<store, cache, cacheFresh, pending, declined, qcOrphans, neg, tasks,
                   lifeVars>>

\* The timer of the state in the map fires: broadcast, and delete the asset's state.
NegTimerFire(a) ==
    /\ a \in DOMAIN neg
    /\ neg[a].timer
    /\ DeleteNegotiation(a, FALSE, neg[a].notifying)
    /\ ev' = Ev("broadcast_timeout", "-")
    /\ UNCHANGED <<store, cache, cacheFresh, pending, declined, qcOrphans, tasks, lifeVars>>

\* The timer of a state object that left the map fires: broadcast, and delete
\* whatever state the asset has now.
StaleTimerFire(a) ==
    /\ staleTimers[a] > 0
    /\ IF a \in DOMAIN neg
       THEN /\ neg' = Drop(neg, a)
            /\ staleNotifies[a] + staleTimers[a] - 1
                 + (IF neg[a].timer THEN 1 ELSE 0) + (IF neg[a].notifying THEN 1 ELSE 0)
                 <= MaxStale
            /\ staleNotifies' = [staleNotifies EXCEPT
                                   ![a] = @ + (IF neg[a].notifying THEN 1 ELSE 0)]
            /\ staleTimers' = [staleTimers EXCEPT
                                 ![a] = @ - 1 + (IF neg[a].timer THEN 1 ELSE 0)]
            /\ ev' = Ev("broadcast_late_clear", "-")
       ELSE /\ staleTimers' = [staleTimers EXCEPT ![a] = @ - 1]
            /\ ev' = Ev("broadcast_late", "-")
            /\ UNCHANGED <<neg, staleNotifies>>
    /\ UNCHANGED <<store, cache, cacheFresh, pending, declined, qcOrphans, tasks, lifeVars>>

\* ---------------------------------------- quantity confirmation controller
\* pendingConfirmations.delete(key): a timer the deleted confirmation still holds
\* stays armed.
DeleteConfirmation(key) ==
    /\ pending' = Drop(pending, key)
    /\ IF key \in DOMAIN pending /\ pending[key].timer
       THEN /\ qcOrphans[key] < MaxOrphans
            /\ qcOrphans' = [qcOrphans EXCEPT ![key] = @ + 1]
       ELSE UNCHANGED qcOrphans

\* handleQuantityConfirmationResponse, lines 487-491: no confirmation is pending
\* for the key; the call logs that and returns.
NoPendingConfirmation_M(key, pend) ==
    /\ ev' = Ev("qc_not_pending", "-")
    /\ pending' = pend
    /\ declined' = declined \cup {key}
    /\ UNCHANGED tasks
NoPendingConfirmation(key, pend) ==
    /\ ev' = Ev("qc_not_pending", "-")
    /\ pending' = pend
    /\ UNCHANGED <<tasks, declined>>

\* Lines 494-496: the smaller party accepts and names a quantity.
SmallerUpsizes(c, accepted, newQuantity) ==
    c.state = "AWAITING_SMALLER" /\ accepted /\ newQuantity # None

\* Lines 542-544: the larger party accepts the partial fill.
LargerAccepts_M(c, accepted) == c.state = "AWAITING_LARGER"
LargerAccepts(c, accepted) == c.state = "AWAITING_LARGER" /\ accepted

\* Line 549: this.declinedPartialFills.add(confirmationKey)
MarkDeclined_M(key) == declined
MarkDeclined(key) == declined \cup {key}

\* Lines 513-519: the confirmation now waits for the larger party, on a new timer.
AskLargerParty_M(c) == [c EXCEPT !.state = "AWAITING_LARGER"]
AskLargerParty(c) == [c EXCEPT !.state = "AWAITING_LARGER", !.timer = TRUE]

\* handleQuantityConfirmationResponse(key, accepted, newQuantity) up to its first
\* await; pend is the map when it starts.
QuantityResponse(key, accepted, newQuantity, pend) ==
    IF key \notin DOMAIN pend
    THEN NoPendingConfirmation(key, pend)
    ELSE LET c == pend[key]
             tk == [Idle EXCEPT !.kind = "qc", !.asset = key[1], !.key = key,
                                !.bid = c.bidOrder, !.offer = c.offerOrder,
                                !.accepted = accepted]
         IN CASE SmallerUpsizes(c, accepted, newQuantity) ->
                   /\ CanStart
                   /\ pending' = [pend EXCEPT ![key].timer = FALSE]
                   /\ tasks' = Swap(Idle,
                                  [tk EXCEPT !.pc = "upsize", !.via = "smaller",
                                             !.newVal = newQuantity,
                                             !.upd = SmallerOrder(c).id])
                   /\ ev' = Ev("qc_smaller_accept", "-")
                   /\ UNCHANGED declined
              [] c.state = "AWAITING_SMALLER" /\ ~SmallerUpsizes(c, accepted, newQuantity) ->
                   /\ pending' = [pend EXCEPT ![key] = AskLargerParty(c)]
                   /\ ev' = Ev("partial_fill_approval", UserOf(LargerOrder(c).id))
                   /\ UNCHANGED <<tasks, declined>>
              [] LargerAccepts(c, accepted) ->
                   /\ CanStart
                   /\ pending' = Drop(pend, key)
                   /\ tasks' = Swap(Idle,
                                  [tk EXCEPT !.pc = "tx", !.via = "larger", !.key = NoKey])
                   /\ ev' = Ev("qc_larger_accept", "-")
                   /\ UNCHANGED declined
              [] OTHER ->
                   /\ pending' = Drop(pend, key)
                   /\ declined' = MarkDeclined(key)
                   /\ ev' = [op |-> "qc_declined", u |-> "-", key |-> key]
                   /\ UNCHANGED tasks

\* A user's reply reaches handleQuantityConfirmationResponse.
HandleQuantityConfirmationResponse(key, accepted, newQuantity) ==
    /\ QuantityResponse(key, accepted, newQuantity, pending)
    /\ UNCHANGED <<store, cache, cacheFresh, qcOrphans, neg, staleNotifies, staleTimers,
                   lifeVars>>

\* The timer the pending confirmation holds fires.
ConfirmationTimerFire(key) ==
    /\ key \in DOMAIN pending
    /\ pending[key].timer
    /\ QuantityResponse(key, FALSE, None, [pending EXCEPT ![key].timer = FALSE])
    /\ UNCHANGED <<store, cache, cacheFresh, qcOrphans, neg, staleNotifies, staleTimers,
                   lifeVars>>

\* An armed timer of a confirmation object that already left the map fires.
OrphanTimerFire(key) ==
    /\ qcOrphans[key] > 0
    /\ qcOrphans' = [qcOrphans EXCEPT ![key] = @ - 1]
    /\ QuantityResponse(key, FALSE, None, pending)
    /\ UNCHANGED <<store, cache, cacheFresh, neg, staleNotifies, staleTimers, lifeVars>>

\* The store has set amount and remaining of the smaller side's order.
Upsized(t) ==
    LET tk == t IN
    /\ tk.pc = "upsize"
    /\ store' = [store EXCEPT ![tk.upd].amount = tk.newVal, ![tk.upd].remaining = tk.newVal]
    /\ tasks' = Swap(t, [tk EXCEPT !.pc = "reload", !.newVal = None, !.upd = "-"])
    /\ ev' = Ev("upsized", "-")
    /\ UNCHANGED <<engineVars, lifeVars>>

\* The store update of the quantity rejects: the await throws into the catch of the
\* handler (line 554), which logs the error and returns.  The confirmation stays in
\* the map as the handler left it, its timer cleared.
UpsizeFails(t) ==
    /\ t.pc = "upsize"
    /\ tasks' = Swap(t, Idle)
    /\ ev' = Ev("upsize_failed", "-")
    /\ UNCHANGED <<store, engineVars, lifeVars>>

\* Both orders are read back; the handler deletes the confirmation and calls
\* executeMatch with the rows it read.
Reloaded_M(t) ==
    /\ t.pc = "reload"
    /\ DeleteConfirmation(t.key)
    /\ tasks' = Swap(t, [t EXCEPT !.pc = "tx", !.key = NoKey])
    /\ ev' = Ev("reloaded", "-")
    /\ UNCHANGED <<store, cache, cacheFresh, declined, neg, staleNotifies, staleTimers,
                   lifeVars>>
Reloaded(t) ==
    LET tk == t IN
    /\ tk.pc = "reload"
    /\ DeleteConfirmation(tk.key)
    /\ tasks' = Swap(t, [tk EXCEPT !.pc = "tx", !.bid = Row(tk.bid.id),
                                                 !.offer = Row(tk.offer.id), !.key = NoKey])
    /\ ev' = Ev("reloaded", "-")
    /\ UNCHANGED <<store, cache, cacheFresh, declined, neg, staleNotifies, staleTimers,
                   lifeVars>>

\* ------------------------------------------------------------- lookups
\* getUserPendingConfirmations(userId): the keys of the confirmations it returns.
IsUserInvolved(c, userId) ==
    \/ c.smallerParty = "BUYER" /\ UserOf(c.bidOrder.id) = userId
    \/ c.smallerParty = "SELLER" /\ UserOf(c.offerOrder.id) = userId
GetUserPendingConfirmations(userId) ==
    {k \in DOMAIN pending : IsUserInvolved(pending[k], userId)}

\* ---------------------------------------------------------- commission
\* calculateCommission computes in IEEE 754 double precision.  A positive double is
\* a record [m, e] that stands for m * 2^e; m is a sequence of at most MantBits
\* bits, least significant first.  Only positive finite numbers occur.
RECURSIVE Pow2(_)
Pow2(n) == IF n = 0 THEN 1 ELSE 2 * Pow2(n - 1)
MantBits == 53
LimbBits == 10
LimbBase == Pow2(LimbBits)
FracLimbCount == 7

Bit(b, i) == IF i >= 1 /\ i <= Len(b) THEN b[i] ELSE 0
BitLen(b) ==
    IF \E i \in 1..Len(b) : b[i] = 1
    THEN CHOOSE i \in 1..Len(b) : b[i] = 1 /\ \A j \in (i + 1)..Len(b) : b[j] = 0
    ELSE 0
RECURSIVE SumOver(_, _, _)
SumOver(f, lo, hi) == IF lo > hi THEN 0 ELSE f[lo] + SumOver(f, lo + 1, hi)

\* b + 1
Inc(b) ==
    LET k == IF \E i \in 1..Len(b) : b[i] = 0
             THEN CHOOSE i \in 1..Len(b) : b[i] = 0 /\ \A j \in 1..(i - 1) : b[j] = 1
             ELSE Len(b) + 1
    IN [i \in 1..Max(Len(b), k) |-> IF i < k THEN 0 ELSE IF i = k THEN 1 ELSE b[i]]

\* The double nearest to the integer b * 2^e (ties to even); sticky: the number is
\* larger than b * 2^e by less than 2^e.
RoundToDouble(b, e, sticky) ==
    LET h == BitLen(b)
        s == h - MantBits
        q == [i \in 1..MantBits |-> b[i + s]]
        up == b[s] = 1 /\ (sticky \/ q[1] = 1 \/ \E i \in 1..(s - 1) : b[i] = 1)
        r == IF up THEN Inc(q) ELSE q
    IN IF s <= 0 THEN [m |-> [i \in 1..h |-> b[i]], e |-> e]
       ELSE IF Len(r) > MantBits
       THEN [m |-> [i \in 1..MantBits |-> r[i + 1]], e |-> e + s + 1]
       ELSE [m |-> r, e |-> e + s]

\* The digits of r / den after the point in base LimbBase, most significant first,
\* and the remainder they leave.
RECURSIVE FracLimbs(_, _, _)
FracLimbs(r, den, k) ==
    IF k = 0 THEN <<>>
    ELSE <<(r * LimbBase) \div den>> \o FracLimbs((r * LimbBase) % den, den, k - 1)
RECURSIVE FracRem(_, _, _)
FracRem(r, den, k) == IF k = 0 THEN r ELSE FracRem((r * LimbBase) % den, den, k - 1)
RECURSIVE IntBits(_)
IntBits(n) == IF n = 0 THEN <<>> ELSE <<n % 2>> \o IntBits(n \div 2)

\* The double a decimal literal or an integer num / den converts to.
ToDouble(num, den) ==
    LET frac == FracLimbs(num % den, den, FracLimbCount)
        low == [i \in 1..(LimbBits * FracLimbCount) |->
                  (frac[FracLimbCount - ((i - 1) \div LimbBits)] \div Pow2((i - 1) % LimbBits)) % 2]
    IN RoundToDouble(low \o IntBits(num \div den), 0 - LimbBits * FracLimbCount,
                     FracRem(num % den, den, FracLimbCount) # 0)

\* The product of two bit sequences, by limbs of LimbBits bits.
LimbAt(b, j) == SumOver([i \in 0..(LimbBits - 1) |-> Bit(b, LimbBits * j + i + 1) * Pow2(i)],
                        0, LimbBits - 1)
LimbCount(b) == (Len(b) + LimbBits - 1) \div LimbBits
RECURSIVE Carry(_, _, _, _)
Carry(cols, k, n, c) ==
    IF k > n THEN IF c = 0 THEN <<>> ELSE <<c % LimbBase>> \o Carry(cols, k, n, c \div LimbBase)
    ELSE <<(cols[k] + c) % LimbBase>> \o Carry(cols, k + 1, n, (cols[k] + c) \div LimbBase)
MulBits(x, y) ==
    LET nx == LimbCount(x)
        ny == LimbCount(y)
        xl == [j \in 0..(nx - 1) |-> LimbAt(x, j)]
        yl == [j \in 0..(ny - 1) |-> LimbAt(y, j)]
        cols == [k \in 0..(nx + ny - 2) |->
                   SumOver([i \in 0..(nx - 1) |->
                              IF k - i >= 0 /\ k - i <= ny - 1 THEN xl[i] * yl[k - i] ELSE 0],
                           0, nx - 1)]
        limbs == Carry(cols, 0, nx + ny - 2, 0)
    IN [i \in 1..(LimbBits * Len(limbs)) |->
          (limbs[((i - 1) \div LimbBits) + 1] \div Pow2((i - 1) % LimbBits)) % 2]

\* x * y in double precision.
MulDouble(x, y) == RoundToDouble(MulBits(x.m, y.m), x.e + y.e, FALSE)

\* Math.round(x) for a positive double below 2^30: the nearest integer, halves up.
MathRound(x) ==
    LET f == 0 - x.e
        n == Len(x.m)
    IN IF f <= 0 THEN SumOver([i \in 1..n |-> x.m[i] * Pow2(i - 1)], 1, n) * Pow2(x.e)
       ELSE SumOver([i \in (f + 1)..Max(n, f + 1) |-> Bit(x.m, i) * Pow2(i - f - 1)],
                    f + 1, Max(n, f + 1))
            + Bit(x.m, f)

\* calculateCommission(amount, price), in cents: Math.round((amount * price * 0.001) * 100);
\* the price is given in cents and reaches the function as the double Number(price).
CalculateCommission(amount, cents) ==
    MathRound(MulDouble(MulDouble(MulDouble(ToDouble(amount, 1), ToDouble(cents, 100)),
                                  ToDouble(1, 1000)),
                        ToDouble(100, 1)))

\* --------------------------------------------------------- environment
\* cacheValidityMs passes since the cache was filled.  An outdated vector is read
\* only by the error path of getActiveOrders, which is not modelled: it is dropped.
CacheExpires ==
    /\ cacheFresh
    /\ InvalidateCache
    /\ ev' = Quiet
    /\ UNCHANGED <<store, pending, declined, qcOrphans, neg, staleNotifies, staleTimers,
                   tasks, lifeVars>>

\* The owner cancels an active order; this happens outside the engine.
OrderCancelled(o) ==
    /\ store[o].status = "ACTIVE"
    /\ store' = [store EXCEPT ![o].status = "CANCELLED"]
    /\ ev' = Ev("order_cancelled", "-")
    /\ UNCHANGED <<engineVars, tasks, lifeVars>>

\* ---------------------------------------------------------------- system
\* A book of one bid and one offer: b1 and o1 are active, the other orders cancelled.
OneAssetBook ==
    \A o \in Orders :
        IF o \in {"b1", "o1"} THEN store[o].status = "ACTIVE" ELSE store[o] = CancelledRow

\* The engine once start() was called and the start-up delay has passed.
Started ==
    /\ isRunning = TRUE
    /\ startups = 0
    /\ interval = TRUE
    /\ leaked = 0

Init == InitEngine /\ Started /\ OneAssetBook

\* Ticks, processAsset calls, and the commit of a match.
Matching ==
    \/ TickStart
    \/ \E a \in Assets : ProcessAsset(a)
    \/ \E t \in InFlight : Fetched(t)
    \/ \E t \in InFlight : Commit(t)
    \/ \E t \in InFlight : MatchReturn(t)
    \/ \E t \in InFlight : CommitFail(t)
    \/ CacheExpires

\* The replies and timers of the quantity confirmation.
Confirming ==
    \/ \E k \in Keys, accepted \in BOOLEAN, q \in 0..MaxQty :
            HandleQuantityConfirmationResponse(k, accepted, q)
    \/ \E k \in Keys : ConfirmationTimerFire(k)
    \/ \E k \in Keys : OrphanTimerFire(k)
    \/ \E t \in InFlight : Upsized(t)
    \/ \E t \in InFlight : Reloaded(t)
    \/ \E t \in InFlight : ProcessAssetEnd(t)

\* The replies and timers of the negotiation.
Negotiating ==
    \/ \E t \in InFlight : AfterAlerts(t)
    \/ \E a \in Assets, u \in Users, improved \in BOOLEAN, newPrice \in Prices \cup {None} :
            HandleNegotiationResponse(a, u, improved, newPrice)
    \/ \E t \in InFlight : PriceUpdated(t)
    \/ \E a \in Assets : NotifyResume(a)
    \/ \E a \in Assets : StaleNotifyResume(a)
    \/ \E a \in Assets : NegTimerFire(a)
    \/ \E a \in Assets : StaleTimerFire(a)

\* The tick over more than one asset, and the failures of the realtime channel and
\* of the fan-out.
Looping ==
    \/ \E t \in InFlight : TickNext(t)
    \/ \E t \in InFlight : TickDecisionThrows(t)
    \/ \E t \in InFlight : FanoutFails(t)

\* The failures of the store while a reply is handled.
Failing == \E t \in InFlight : UpsizeFails(t)

\* The engine over any book of the bounds.
Next == Matching \/ Confirming \/ Negotiating \/ Looping \/ Failing

Spec == Init /\ [][Next]_vars

\* The engine over a book whose orders have one price: no negotiation starts, and
\* no step of the negotiation is enabled.
InitQC ==
    /\ InitEngine
    /\ Started
    /\ OneAssetBook
    /\ \A o \in Orders : store[o].price = 1000

NextQC == Matching \/ Confirming

SpecQC == InitQC /\ [][NextQC]_vars

\* The engine over a book whose orders have one quantity: no confirmation is
\* requested, and no step of the quantity confirmation changes anything.
InitNeg ==
    /\ InitEngine
    /\ Started
    /\ OneAssetBook
    /\ \A o \in Orders : store[o].amount = 1

NextNeg == Matching \/ Negotiating

SpecNeg == InitNeg /\ [][NextNeg]_vars

\* The engine over a book that differs in price and in quantity, when calls do not
\* overlap: a tick, a processAsset call, a reply or a confirmation timer starts only
\* when no call is suspended.  No confirmation then leaves the map with its timer
\* armed, so OrphanTimerFire is never enabled.
InitMixed ==
    /\ InitEngine
    /\ Started
    /\ OneAssetBook
    /\ store["b1"].price = 950 /\ store["b1"].amount = 1
    /\ store["o1"].price = 1000 /\ store["o1"].amount = MaxQty

NoCall == tasks = EmptyBag

NextMixed ==
    \/ NoCall /\ TickStart
    \/ NoCall /\ \E a \in Assets : ProcessAsset(a)
    \/ NoCall /\ \E k \in Keys, accepted \in BOOLEAN, q \in 0..MaxQty :
                    HandleQuantityConfirmationResponse(k, accepted, q)
    \/ NoCall /\ \E k \in Keys : ConfirmationTimerFire(k)
    \/ NoCall /\ \E a \in Assets, u \in Users, improved \in BOOLEAN,
                    newPrice \in Prices \cup {None} :
                    HandleNegotiationResponse(a, u, improved, newPrice)
    \/ \E t \in InFlight : Fetched(t)
    \/ \E t \in InFlight : Commit(t)
    \/ \E t \in InFlight : MatchReturn(t)
    \/ \E t \in InFlight : CommitFail(t)
    \/ CacheExpires
    \/ \E t \in InFlight : Upsized(t)
    \/ \E t \in InFlight : Reloaded(t)
    \/ \E t \in InFlight : ProcessAssetEnd(t)
    \/ \E t \in InFlight : AfterAlerts(t)
    \/ \E t \in InFlight : PriceUpdated(t)
    \/ \E a \in Assets : NotifyResume(a)
    \/ \E a \in Assets : StaleNotifyResume(a)
    \/ \E a \in Assets : NegTimerFire(a)
    \/ \E a \in Assets : StaleTimerFire(a)

SpecMixed == InitMixed /\ [][NextMixed]_vars

\* The same engine over a book whose best bid is priced above its best offer.
InitCross ==
    /\ InitEngine
    /\ Started
    /\ OneAssetBook
    /\ store["b1"].price = 1000 /\ store["b1"].amount = 1
    /\ store["o1"].price = 950 /\ store["o1"].amount = MaxQty

SpecCross == InitCross /\ [][NextMixed]_vars

\* The tick over a book of two assets, one bid and one offer each at one price,
\* when ticks do not overlap and the realtime channel may fail.
InitLoop ==
    /\ InitEngine
    /\ Started
    /\ \A o \in Orders :
          IF o \in {"b3", "o3"} THEN store[o] = CancelledRow
          ELSE store[o].status = "ACTIVE" /\ store[o].price = 1000

NextLoop ==
    \/ NoCall /\ TickStart
    \/ \E t \in InFlight : Fetched(t)
    \/ \E t \in InFlight : TickNext(t)
    \/ \E t \in InFlight : TickDecisionThrows(t)
    \/ \E t \in InFlight : Commit(t)
    \/ \E t \in InFlight : MatchReturn(t)
    \/ \E t \in InFlight : FanoutFails(t)
    \/ \E t \in InFlight : CommitFail(t)
    \/ CacheExpires

SpecLoop == InitLoop /\ [][NextLoop]_vars

\* The negotiation over a book of two bids below two offers of one asset, when calls
\* do not overlap, nobody replies, and owners cancel orders.
InitTurn ==
    /\ InitEngine
    /\ Started
    /\ \A o \in Orders :
          IF AssetOf(o) # "A" THEN store[o] = CancelledRow
          ELSE /\ store[o].status = "ACTIVE"
               /\ store[o].price = IF o \in Bids THEN 950 ELSE 1000

NextTurn ==
    \/ NoCall /\ TickStart
    \/ \E t \in InFlight : Fetched(t)
    \/ \E t \in InFlight : AfterAlerts(t)
    \/ \E a \in Assets : NotifyResume(a)
    \/ \E a \in Assets : NegTimerFire(a)
    \/ \E o \in Orders : OrderCancelled(o)
    \/ CacheExpires

SpecTurn == InitTurn /\ [][NextTurn]_vars

\* processAsset over every book of up to two bids and two offers of one asset, when
\* calls do not overlap and nobody replies.
InitBest ==
    /\ InitEngine
    /\ Started
    /\ \A o \in Orders : AssetOf(o) # "A" => store[o] = CancelledRow

NextBest ==
    \/ NoCall /\ \E a \in Assets : ProcessAsset(a)
    \/ \E t \in InFlight : Fetched(t)
    \/ \E t \in InFlight : AfterAlerts(t)
    \/ \E t \in InFlight : ProcessAssetEnd(t)
    \/ \E t \in InFlight : Commit(t)
    \/ \E t \in InFlight : CommitFail(t)
    \/ \E t \in InFlight : MatchReturn(t)

SpecBest == InitBest /\ [][NextBest]_vars

\* The quantity confirmation when calls do not overlap and the store may fail, under
\* fair scheduling: an armed timer fires, and a call suspended on the store resumes
\* with the store's answer, success or failure.
NextConfirm ==
    \/ NoCall /\ TickStart
    \/ NoCall /\ \E k \in Keys, accepted \in BOOLEAN, q \in 0..MaxQty :
                    HandleQuantityConfirmationResponse(k, accepted, q)
    \/ \E k \in Keys : ConfirmationTimerFire(k)
    \/ \E t \in InFlight : Fetched(t)
    \/ \E t \in InFlight : Upsized(t)
    \/ \E t \in InFlight : UpsizeFails(t)
    \/ \E t \in InFlight : Reloaded(t)
    \/ \E t \in InFlight : Commit(t)
    \/ \E t \in InFlight : CommitFail(t)
    \/ CacheExpires

Resumes(t) ==
    Fetched(t) \/ Upsized(t) \/ UpsizeFails(t) \/ Reloaded(t) \/ Commit(t) \/ CommitFail(t)

FairConfirm ==
    /\ \A k \in Keys : WF_vars(ConfirmationTimerFire(k))
    /\ WF_vars(\E t \in InFlight : Resumes(t))

SpecConfirm == InitQC /\ [][NextConfirm]_vars /\ FairConfirm

\* The first three statements of executeMatch, over a book of one bid and one
\* offer at the same price: the trade quantity, the trade price and the commission.
TradePrices == {50 * i : i \in 1..MaxPriceStep}      \* in cents
InitCommission ==
    /\ \E p \in TradePrices, q \in 1..MaxLots :
          store = [o \in Orders |->
                     IF o \notin {"b1", "o1"} THEN CancelledRow
                     ELSE [price |-> p,
                           amount |-> IF o \in Bids THEN MaxLots ELSE q,
                           remaining |-> IF o \in Bids THEN MaxLots ELSE q,
                           status |-> "ACTIVE", matched |-> FALSE]]
    /\ cache = EmptySnap
    /\ cacheFresh = FALSE
    /\ pending = [k \in {} |-> 0]
    /\ declined = {}
    /\ qcOrphans = [k \in Keys |-> 0]
    /\ neg = [a \in {} |-> 0]
    /\ staleNotifies = [a \in Assets |-> 0]
    /\ staleTimers = [a \in Assets |-> 0]
    /\ tasks = EmptyBag
    /\ ev = Ev("init", "-")
    /\ Started

TradeTerms(bid, offer) ==
    /\ ev.op = "init"
    /\ ev' = [op |-> "trade_terms", u |-> "-",
              tradeAmount |-> Min(store[bid].remaining, store[offer].remaining),
              tradePrice |-> store[offer].price,
              commission |-> CalculateCommission(Min(store[bid].remaining, store[offer].remaining),
                                                 store[offer].price)]
    /\ UNCHANGED <<store, engineVars, tasks, lifeVars>>

NextCommission == TradeTerms("b1", "o1")

SpecCommission == InitCommission /\ [][NextCommission]_vars

\* ---------------------------------------------------------------- claims
KeyOfTrade(e) == <<AssetOf(e.bid), e.bid, e.offer>>
Committed(e) == e.op = "trade"
\* processMatching calls in flight.
TicksInFlight == BagCardinality([t \in {x \in InFlight : x.kind = "tick"} |-> tasks[t]])
\* The user whose turn it is in the negotiation of asset a.
OnTurn(a) == Notified(neg[a])

\* C1: a commit writes a trade whose amount is the minimum of the two remaining
\* quantities the store holds just before the commit, and lowers both by that amount.
C1_TradeFollowsStore ==
    [][Committed(ev') =>
         /\ ev'.amount = Min(store[ev'.bid].remaining, store[ev'.offer].remaining)
         /\ store'[ev'.bid].remaining = store[ev'.bid].remaining - ev'.amount
         /\ store'[ev'.offer].remaining = store[ev'.offer].remaining - ev'.amount]_vars

\* C2: every order of the store has 0 <= remaining <= amount, and is MATCHED exactly
\* when nothing remains.
C2_OrderInvariant ==
    \A o \in Orders :
        /\ 0 <= store[o].remaining
        /\ store[o].remaining <= store[o].amount
        /\ (store[o].status = "MATCHED") <=> (store[o].remaining = 0)

\* C3: a trade over different quantities is committed only by the confirmation
\* handler, and the handler commits only on a reply that accepts; a decline or a
\* timer (a reply that does not accept) commits nothing.
C3_NoSilentPartialFill ==
    Committed(ev) =>
        /\ ev.matchType # "FULL_MATCH" => ev.via \in {"smaller", "larger"}
        /\ ev.via # "pam" => ev.accepted
C3_Witness ==
    /\ Committed(ev)
    /\ ev.matchType # "FULL_MATCH"
    /\ ev.via = "larger"
    /\ ev.accepted

\* C4: a key of the declined set stays in it, and no step creates a pending
\* confirmation for it.
C4_DeclinedIsFinal ==
    [][\A k \in declined :
          /\ k \in declined'
          /\ k \in DOMAIN pending' => k \in DOMAIN pending]_vars
C4_Witness ==
    /\ ev.op = "pam_declined_skip"
    /\ declined # {}
    /\ DOMAIN neg # {}

\* C5: at most one processMatching call is in flight.
C5_OneTickInFlight == TicksInFlight <= 1

\* C6: the price of a committed trade is the price the store holds for the offer
\* when the commit happens.
C6_TradeAtStoreOfferPrice ==
    [][Committed(ev') => ev'.price = store[ev'.offer].price]_vars

\* C7: after a terminal step of the confirmation handler (a commit it made, or the
\* larger side's decline or timeout) no timer armed for a confirmation of the key
\* that has left the map is still armed.
C7_TerminalLeavesNoTimer ==
    \A k \in Keys :
        (\/ ev.op = "qc_declined" /\ ev.key = k
         \/ Committed(ev) /\ ev.via \in {"smaller", "larger"} /\ KeyOfTrade(ev) = k)
        => qcOrphans[k] = 0

\* C8: the timer of a negotiation state that has left the map, when it fires, leaves
\* the negotiation state of the asset as it is.
C8_LateTimerKeepsState ==
    [][ev'.op \in {"broadcast_late", "broadcast_late_clear"} => neg' = neg]_vars

\* C9: a reply for a key that is not pending changes nothing: store, cache, pending
\* and declined confirmations, negotiation, and the calls in flight stay as they are.
C9_UnknownKeyIgnored ==
    [][ev'.op = "qc_not_pending" =>
         UNCHANGED <<store, cache, cacheFresh, pending, declined, neg, staleNotifies,
                     staleTimers, tasks>>]_vars
C9_Witness ==
    /\ ev.op = "qc_not_pending"
    /\ DOMAIN neg # {}
    /\ declined # {}

\* C10: a reply to the negotiation by a user whose turn it is not leaves the
\* negotiation state (orders, turn, armed timer) and the store as they are.
C10_WrongSideIgnored ==
    [][\A a \in DOMAIN neg :
          (ev'.op \in {"neg_toggle", "broadcast_pass", "neg_improve"} /\ ev'.u # OnTurn(a))
          => (neg' = neg /\ store' = store)]_vars

\* C11: when the store has updated the price for the user on turn, the handler goes
\* on with orders queried from the store after the update (the cache having been
\* invalidated), so the per-asset decision it runs sees the new price.
C11_ImprovedPriceObserved ==
    [][\A t \in InFlight :
          (t.pc = "priceupd" /\ t \notin BagToSet(tasks'))
          => \E u \in BagToSet(tasks') :
                 u.kind = "neg" /\ u.pc = "fetched" /\ u.snap = FindActive(store')]_vars

\* The best bid of the orders is priced above the best offer.
Crossing(ords) ==
    /\ BidsOf(ords) # {} /\ OffersOf(ords) # {}
    /\ ords[BestBid(ords)].price > ords[BestOffer(ords)].price

\* C12: a per-asset decision taken on queried rows whose best bid is priced above the
\* best offer leaves the negotiation map as it is, and either goes to commit the pair
\* at the offer's price or leaves a pending confirmation for the pair.
C12_CrossingBookCommits ==
    [][\A t \in InFlight :
          (t.pc = "fetched" /\ t \notin BagToSet(tasks') /\ Crossing(t.snap))
          => /\ neg' = neg
             /\ \/ \E u \in BagToSet(tasks') :
                     /\ u.pc = "tx"
                     /\ u.bid.id = BestBid(t.snap) /\ u.offer.id = BestOffer(t.snap)
                     /\ TradePrice(u.bid, u.offer) = t.snap[BestOffer(t.snap)].price
                \/ <<t.asset, BestBid(t.snap), BestOffer(t.snap)>> \in DOMAIN pending']_vars

\* C13: an asset has no negotiation state once a per-asset decision has found its best
\* prices equal: none while a quantity confirmation of the asset is pending, and none
\* while a match the decision found is being committed.
C13_NegotiationOnlyBelow ==
    \A a \in DOMAIN neg :
        /\ \A k \in DOMAIN pending : k[1] # a
        /\ \A t \in InFlight : ~(t.pc = "tx" /\ t.via = "pam" /\ t.asset = a)

\* The observations of a step that ran the per-asset decision.
DecisionOps == {"confirmation_request", "pam_already_pending", "pam_declined_skip",
                "pam_match", "pam_alerts", "neg_created", "neg_updated"}

C15_ErrorKeepsSiblings ==
    [][\A t \in InFlight :
          (ev'.op = "decision_error" /\ t.kind = "tick" /\ t \notin BagToSet(tasks')
             /\ RestOfTick(t) # <<>>)
          => \E u \in BagToSet(tasks') : u.kind = "tick" /\ u.todo = RestOfTick(t)]_vars

\* C16 as stated: an aborted transaction leaves the store, the snapshot cache, the
\* pending confirmations and the declined pairs as they are, whichever call it was.
C16_AbortChangesNothing ==
    [][ev'.op = "commit_failed"
         => UNCHANGED <<store, cache, cacheFresh, pending, declined>>]_vars

\* C16: an aborted transaction leaves the store, the pending confirmations and the
\* declined pairs as they are and commits no trade; the snapshot cache stays as it is
\* too, except that a processAsset call invalidates it when it returns.
C16_AbortLeavesState ==
    [][ev'.op = "commit_failed"
         => /\ UNCHANGED <<store, pending, declined>>
            /\ IF ev'.kind = "pa"
               THEN cache' = EmptySnap /\ cacheFresh' = FALSE
               ELSE UNCHANGED <<cache, cacheFresh>>]_vars
C16_Witness ==
    /\ ev.op = "commit_failed"
    /\ ev.via = "smaller"
    /\ cacheFresh

\* C17: when executeMatch moves on from the fan-out that follows a commit, whether the
\* fan-out succeeded or failed, the store keeps the committed rows and the trade
\* notifications to the buyer and the seller are sent.
C17_FanoutIndependent ==
    [][\A t \in InFlight :
          (t.pc = "fanout" /\ Leaves(t))
          => (store' = store /\ ev'.op = "trade_notifications")]_vars

\* An order a trade may be committed against: active, with something left to fill.
Live(o) == store[o].status = "ACTIVE" /\ store[o].remaining > 0

\* C18: a commit trades two orders that are live in the store when it commits, and it
\* leaves the row of every order that is not live as it is.
C18_CommitOnlyLiveOrders ==
    [][Committed(ev')
         => /\ Live(ev'.bid) /\ Live(ev'.offer)
            /\ \A o \in Orders : ~Live(o) => store'[o] = store[o]]_vars

\* The confirmation is waiting for a reply of this user.
Soliciting(c, userId) ==
    \/ c.state = "AWAITING_SMALLER" /\ UserOf(SmallerOrder(c).id) = userId
    \/ c.state = "AWAITING_LARGER" /\ UserOf(LargerOrder(c).id) = userId

\* C19: for every user, getUserPendingConfirmations returns exactly the pending
\* confirmations that are waiting for a reply of that user.
C19_ListsSolicitedUser ==
    \A u \in Users :
        GetUserPendingConfirmations(u) = {k \in DOMAIN pending : Soliciting(pending[k], u)}

\* C20: the commission of a trade of a lots at a price of p cents is, in cents,
\* a * p / 1000 rounded to the nearest integer, halves rounded up.
C20_CommissionHalfUp ==
    ev.op = "trade_terms" =>
        ev.commission = (ev.tradeAmount * ev.tradePrice + 500) \div 1000

\* C21: in the handling of the smaller party's acceptance with a new quantity, the
\* store update sets amount and remaining of the smaller side's order to that quantity;
\* the reload hands the rows the store then holds for the two orders to the commit; and
\* the commit trades the minimum of the reloaded remaining quantities, leaving both
\* orders MATCHED with nothing remaining when these are equal.
C21_UpsizeThenCommitReloaded ==
    [][\A t \in InFlight :
          (t.kind = "qc" /\ t.via = "smaller" /\ Leaves(t))
          => /\ t.pc = "upsize"
                => /\ store'[t.upd].amount = t.newVal
                   /\ store'[t.upd].remaining = t.newVal
                   /\ \E u \in BagToSet(tasks') : u.pc = "reload" /\ u.key = t.key
             /\ t.pc = "reload"
                => \E u \in BagToSet(tasks') :
                       /\ u.pc = "tx" /\ u.via = "smaller"
                       /\ u.bid = Row(t.bid.id) /\ u.offer = Row(t.offer.id)
                       /\ t.key \notin DOMAIN pending'
             /\ (t.pc = "tx" /\ Committed(ev'))
                => /\ ev'.amount = Min(t.bid.remaining, t.offer.remaining)
                   /\ t.bid.remaining = t.offer.remaining
                      => \A o \in {t.bid.id, t.offer.id} :
                             store'[o].remaining = 0 /\ store'[o].status = "MATCHED"]_vars
C21_Witness ==
    /\ Committed(ev)
    /\ ev.via = "smaller"
    /\ ev.amount = MaxQty
    /\ \A o \in {ev.bid, ev.offer} :
           store[o].amount = MaxQty /\ store[o].remaining = 0 /\ store[o].status = "MATCHED"

\* C22: a confirmation that awaits the smaller party leaves that state, other than by
\* the smaller party's acceptance with a quantity, only in a step that makes it await
\* the larger party under the same key with its timer armed and no further timer left
\* armed, notifies the larger party's user, and changes neither the store nor the
\* declined set nor the calls in flight; and a confirmation that awaits the larger
\* party never awaits the smaller party again.
C22_SmallerDeclineAsksLarger ==
    [][\A k \in DOMAIN pending :
          /\ (/\ pending[k].state = "AWAITING_SMALLER"
              /\ ev'.op \notin {"qc_smaller_accept", "reloaded"}
              /\ (k \notin DOMAIN pending' \/ pending'[k] # pending[k]))
             => /\ ev'.op = "partial_fill_approval"
                /\ ev'.u = UserOf(LargerOrder(pending[k]).id)
                /\ pending' = [pending EXCEPT ![k].state = "AWAITING_LARGER",
                                              ![k].timer = TRUE]
                /\ qcOrphans'[k] <= qcOrphans[k]
                /\ UNCHANGED <<store, declined, tasks>>
          /\ (pending[k].state = "AWAITING_LARGER" /\ k \in DOMAIN pending')
             => pending'[k].state = "AWAITING_LARGER"]_vars
C22_Witness ==
    /\ ev.op = "partial_fill_approval"
    /\ \E k \in DOMAIN pending :
           /\ pending[k].state = "AWAITING_LARGER"
           /\ pending[k].timer
           /\ ev.u = UserOf(LargerOrder(pending[k]).id)
           /\ qcOrphans[k] = 0
    /\ declined = {}

\* C23: the commit that follows the larger party's acceptance trades the minimum of
\* the remaining quantities the store holds for the two orders when it commits, which
\* is the smaller quantity of the confirmation; it leaves the smaller side's order
\* MATCHED with nothing remaining and the larger side's order ACTIVE with the
\* difference of the two quantities remaining.
C23_LargerAcceptFillsSmaller ==
    [][\A t \in InFlight :
          (t.pc = "tx" /\ t.via = "larger" /\ Leaves(t) /\ Committed(ev'))
          => LET small == IF t.bid.remaining < t.offer.remaining THEN t.bid.id ELSE t.offer.id
                 large == IF t.bid.remaining < t.offer.remaining THEN t.offer.id ELSE t.bid.id
             IN /\ ev'.amount = Min(t.bid.remaining, t.offer.remaining)
                /\ ev'.amount = Min(store[small].remaining, store[large].remaining)
                /\ store'[small].remaining = 0 /\ store'[small].status = "MATCHED"
                /\ store'[large].status = "ACTIVE"
                /\ store'[large].remaining = store[large].remaining - ev'.amount
                /\ store'[large].remaining
                     = Max(t.bid.remaining, t.offer.remaining) - ev'.amount]_vars

\* C24: a confirmation that awaits the larger party leaves the map, other than by the
\* larger party's acceptance or by the commit of an earlier acceptance of the smaller
\* party, only in a step that removes it, adds its key to the declined set, and leaves
\* the store and the calls in flight as they are: no trade is committed, and amount,
\* remaining and status of both orders stay.
C24_LargerDeclineIsFinal ==
    [][\A k \in DOMAIN pending :
          (/\ pending[k].state = "AWAITING_LARGER"
           /\ ev'.op \notin {"qc_larger_accept", "reloaded"}
           /\ (k \notin DOMAIN pending' \/ pending'[k] # pending[k]))
          => /\ ev'.op = "qc_declined" /\ ev'.key = k
             /\ pending' = Drop(pending, k)
             /\ declined' = declined \cup {k}
             /\ UNCHANGED <<store, tasks>>]_vars
C24_Witness ==
    /\ ev.op = "qc_declined"
    /\ ev.key \in declined
    /\ ev.key \notin DOMAIN pending
    /\ \A o \in {ev.key[2], ev.key[3]} :
           store[o].status = "ACTIVE" /\ store[o].remaining = store[o].amount
    /\ tasks = EmptyBag

\* The calls in flight that handle an acceptance of the smaller party for key k: each
\* has sent or will send one store update of the quantity, and goes on to one commit.
AcceptancesInFlight(k) ==
    BagCardinality([t \in {x \in InFlight : /\ x.kind = "qc" /\ x.via = "smaller"
                                            /\ x.key = k
                                            /\ x.pc \in {"upsize", "reload"}}
                    |-> tasks[t]])

\* C25: a pending confirmation is upsized and committed by at most one call: at no
\* time do two calls in flight handle an acceptance for the same key.
C25_OneAcceptancePerConfirmation ==
    \A k \in Keys : AcceptancesInFlight(k) <= 1

\* C26: every pending confirmation is eventually removed from the map.
C26_ConfirmationEventuallyRemoved ==
    \A k \in Keys : (k \in DOMAIN pending) ~> (k \notin DOMAIN pending)

\* A handleNegotiationResponse call for asset a is in flight.
NegotiationHandled(a) == \E t \in InFlight : t.kind = "neg" /\ t.asset = a

\* C27: whenever an asset has a negotiation state and no handler of a reply to it is
\* running, the timer of the state is armed, or the notification that arms it is under
\* way.
C27_NegotiationHasTimer ==
    \A a \in DOMAIN neg : neg[a].timer \/ neg[a].notifying \/ NegotiationHandled(a)

\* C28: a per-asset decision that finds the best bid below the best offer creates, for
\* an asset without a negotiation state, a state of the two orders whose turn is OFFER;
\* where the state exists and only the best bid differs from it, it replaces the bid and
\* sets the turn to OFFER; where only the best offer differs, it replaces the offer and
\* sets the turn to BID; in these cases it clears the timer and starts the notification
\* of the user on turn, which arms the timer anew.  Where neither order differs it
\* leaves the state, its timer included, as it is and notifies nobody.
C28_TurnRules ==
    [][/\ \A t \in InFlight :
            (t.pc = "alerts" /\ Leaves(t))
            => LET a == t.asset
                   b == t.bid.id
                   o == t.offer.id
                   started == /\ ~neg'[a].timer /\ neg'[a].notifying
                              /\ ev'.op \in {"neg_created", "neg_updated"}
                              /\ ev'.u = Notified(neg'[a])
               IN /\ a \in DOMAIN neg'
                  /\ a \notin DOMAIN neg
                     => /\ neg'[a].bestBid = b /\ neg'[a].bestOffer = o
                        /\ neg'[a].turn = "OFFER" /\ ev'.u = UserOf(o)
                        /\ started
                  /\ (a \in DOMAIN neg /\ b # neg[a].bestBid /\ o = neg[a].bestOffer)
                     => /\ neg'[a].bestBid = b /\ neg'[a].bestOffer = o
                        /\ neg'[a].turn = "OFFER" /\ ev'.u = UserOf(o)
                        /\ started
                  /\ (a \in DOMAIN neg /\ b = neg[a].bestBid /\ o # neg[a].bestOffer)
                     => /\ neg'[a].bestBid = b /\ neg'[a].bestOffer = o
                        /\ neg'[a].turn = "BID" /\ ev'.u = UserOf(b)
                        /\ started
                  /\ (a \in DOMAIN neg /\ b = neg[a].bestBid /\ o = neg[a].bestOffer)
                     => neg' = neg /\ ev' = Quiet
       /\ \A a \in DOMAIN neg :
            (neg[a].notifying /\ a \in DOMAIN neg' /\ ~neg'[a].notifying)
            => neg'[a].timer /\ ev'.op = "your_turn"]_vars
C28_Witness ==
    /\ ev.op = "neg_updated"
    /\ ev.u = "ub1"
    /\ "A" \in DOMAIN neg
    /\ neg["A"].bestBid = "b1" /\ neg["A"].bestOffer = "o3" /\ neg["A"].turn = "BID"

\* C29: the valid snapshot cache holds no order that a committed trade has fully
\* matched: a vector read before the commit is not the valid cache after it.
C29_CacheFollowsCommit ==
    cacheFresh => \A o \in DOMAIN cache : store[o].status # "MATCHED"

\* b has the highest price of the bids, and of the bids at that price the earliest
\* creation time; o has the lowest price of the offers, and of the offers at that price
\* the earliest creation time.
HighestEarliestBid(ords, b) ==
    /\ b \in BidsOf(ords)
    /\ \A c \in BidsOf(ords) : ords[c].price <= ords[b].price
    /\ \A c \in BidsOf(ords) : ords[c].price = ords[b].price => CreatedAt(b) <= CreatedAt(c)
LowestEarliestOffer(ords, o) ==
    /\ o \in OffersOf(ords)
    /\ \A c \in OffersOf(ords) : ords[c].price >= ords[o].price
    /\ \A c \in OffersOf(ords) : ords[c].price = ords[o].price => CreatedAt(o) <= CreatedAt(c)

\* C30: the per-asset decision a processAsset call takes on the rows it queried goes
\* on to commit, to alert or to request a confirmation only for the bid with the
\* highest price and the offer with the lowest price, the earliest created among equal
\* prices; and the negotiation state the decision then writes holds these two orders.
C30_BestOrdersSelected ==
    [][\A t \in InFlight :
          /\ (t.kind = "pa" /\ t.pc = "fetched" /\ Leaves(t))
             => /\ \A u \in BagToSet(tasks') :
                      u.pc \in {"tx", "alerts"}
                      => /\ HighestEarliestBid(t.snap, u.bid.id)
                         /\ LowestEarliestOffer(t.snap, u.offer.id)
                /\ \A k \in DOMAIN pending' \ DOMAIN pending :
                      /\ HighestEarliestBid(t.snap, k[2])
                      /\ LowestEarliestOffer(t.snap, k[3])
                      /\ pending'[k].bidOrder.id = k[2] /\ pending'[k].offerOrder.id = k[3]
                /\ neg' # neg
                   => /\ HighestEarliestBid(t.snap, neg'[t.asset].bestBid)
                      /\ LowestEarliestOffer(t.snap, neg'[t.asset].bestOffer)
          /\ (t.pc = "alerts" /\ Leaves(t) /\ neg' # neg)
             => /\ neg'[t.asset].bestBid = t.bid.id
                /\ neg'[t.asset].bestOffer = t.offer.id
                /\ \A a \in DOMAIN neg : a # t.asset => a \in DOMAIN neg' /\ neg'[a] = neg[a]]_vars
C30_Witness ==
    /\ Committed(ev)
    /\ ev.bid = "b3" /\ ev.offer = "o1"
    /\ store["b1"].status = "ACTIVE" /\ store["b1"].price < ev.price
    /\ store["o3"].status = "ACTIVE" /\ store["o3"].price = ev.price

\* ------------------------------------------------------------ lifecycle
\* The engine after construction: start() was never called.
Constructed ==
    /\ isRunning = FALSE
    /\ startups = 0
    /\ interval = FALSE
    /\ leaked = 0

\* start(): nothing when the engine runs already; otherwise isRunning is set and the
\* start-up callback is scheduled with setTimeout, whose handle is not kept.
Start ==
    /\ IF isRunning
       THEN UNCHANGED lifeVars
       ELSE /\ startups < MaxStartups
            /\ isRunning' = TRUE
            /\ startups' = startups + 1
            /\ UNCHANGED <<interval, leaked>>
    /\ ev' = Ev("start", "-")
    /\ UNCHANGED <<store, engineVars, tasks>>

\* stop(): nothing when the engine does not run; otherwise isRunning is reset and the
\* driver this.matchingInterval refers to, if any, is cleared.  No start-up callback
\* is cancelled, and no driver the field does not refer to is cleared.
Stop ==
    /\ IF isRunning
       THEN /\ isRunning' = FALSE
            /\ interval' = FALSE
            /\ UNCHANGED <<startups, leaked>>
       ELSE UNCHANGED lifeVars
    /\ ev' = Ev("stop", "-")
    /\ UNCHANGED <<store, engineVars, tasks>>

\* A start-up callback runs after its 10 s: it creates a setInterval driver and
\* assigns it to this.matchingInterval, without reading isRunning; a driver the
\* field referred to goes on running with no reference left to it.
StartupFire ==
    /\ startups > 0
    /\ interval => leaked < MaxLeaked
    /\ startups' = startups - 1
    /\ interval' = TRUE
    /\ leaked' = IF interval THEN leaked + 1 ELSE leaked
    /\ ev' = Ev("startup", "-")
    /\ UNCHANGED <<store, engineVars, tasks, isRunning>>

\* The setInterval drivers that are running.
Drivers == (IF interval THEN 1 ELSE 0) + leaked

\* The engine from its construction, with start() and stop() called at any time,
\* over a book of one bid and one offer that match in full.
InitLife ==
    /\ InitEngine
    /\ Constructed
    /\ OneAssetBook
    /\ store["b1"].price = 1000 /\ store["o1"].price = 1000
    /\ store["b1"].amount = store["o1"].amount

NextLife ==
    \/ Start
    \/ Stop
    \/ StartupFire
    \/ TickStart
    \/ \E t \in InFlight : Fetched(t)
    \/ \E t \in InFlight : Commit(t)
    \/ \E t \in InFlight : CommitFail(t)
    \/ CacheExpires

SpecLife == InitLife /\ [][NextLife]_vars

\* C31: while the engine is stopped (stop() has returned and start() was not called
\* again, whenever stop() was called, the start-up delay included) no matching pass
\* starts, and after any sequence of start() and stop() calls at most one periodic
\* tick driver is running.
C31_StoppedEngineStartsNoPass ==
    [][(TickStart => isRunning) /\ Drivers' <= 1]_vars

====
